---- MODULE Spec2Model ----
(***************************************************************************)
(* Model of zip_data.py: the tile acquisition pipeline.                    *)
(*                                                                         *)
(* Byte strings and text are sequences of byte codes, so that the sniffing *)
(* and formatting functions are computed as the code computes them.  A     *)
(* file is a record [exists, data].  The filesystem is keyed by the tile   *)
(* coordinate: tile_path maps distinct coordinates to distinct paths.      *)
(*                                                                         *)
(* The specifications share the actions:                                   *)
(*   Spec          the whole pipeline (main, the executor, download_tile)  *)
(*                 on any disk: ensure_dir and the opening of the log may  *)
(*                 raise;                                                  *)
(*   SpecFair      Spec with every thread scheduled fairly;                *)
(*   SpecDiskOk    Spec where those two calls succeed;                     *)
(*   SpecTile      one coordinate, against a wider set of server answers,  *)
(*                 of jitter values and of files found on disk;            *)
(*   SpecTileTwice SpecTile followed by a second run of the program;       *)
(*   SpecTwice     the pipeline run twice, with one worker, against a      *)
(*                 server whose answers are fixed per coordinate, on any   *)
(*                 disk;                                                   *)
(*   SpecEnum      generate_tiles and the submissions, for any ranges.     *)
(***************************************************************************)
EXTENDS Integers, Sequences, FiniteSets, TLC

\* ------------------------------------------------------------------------
\* Bounds of the model
\* ------------------------------------------------------------------------
MaxXEnd == 2        \* x_end ranges over 0..MaxXEnd (x_start is 1): 0, 1 or 2 tiles
MaxWorkers == 2     \* --workers ranges over 1..MaxWorkers
MaxEnd == 2         \* enumeration alone: each --*-end ranges over 0..MaxEnd

\* ------------------------------------------------------------------------
\* Program constants
\* ------------------------------------------------------------------------
HtmlRetries == 3    \* download_tile(html_retries=3)
SniffLen == 64      \* looks_like_html_or_json: b.lstrip()[:64]
HttpOk == 200       \* _fetch_once: r.status_code != 200
BackoffBaseMs == 500    \* time.sleep(0.5 * 2**attempt + ...), in milliseconds
JitterMaxMs == 250      \* ... + random.uniform(0, 0.25), in milliseconds
PauseBaseMs == 10       \* time.sleep(0.01 + ...) after the rename, in milliseconds
PauseSpanMs == 20       \* ... + random.random() * 0.02, in milliseconds

\* "application/x-protobuf", "application/octet-stream"
CT_PROTOBUF == <<97, 112, 112, 108, 105, 99, 97, 116, 105, 111, 110, 47, 120, 45, 112, 114, 111, 116, 111, 98, 117, 102>>
CT_OCTET == <<97, 112, 112, 108, 105, 99, 97, 116, 105, 111, 110, 47, 111, 99, 116, 101, 116, 45, 115, 116, 114, 101, 97, 109>>
ACCEPTABLE_CT == {CT_PROTOBUF, CT_OCTET}

\* b"<!doctype", b"<html", b"{"
P_DOCTYPE == <<60, 33, 100, 111, 99, 116, 121, 112, 101>>
P_HTML == <<60, 104, 116, 109, 108>>
P_BRACE == <<123>>

\* "html_or_json", "html_or_json:", "unknown", "request_error:", "status:",
\* "io_or_stream:", "request_failed"
S_HJ == <<104, 116, 109, 108, 95, 111, 114, 95, 106, 115, 111, 110>>
S_HJ_COLON == <<104, 116, 109, 108, 95, 111, 114, 95, 106, 115, 111, 110, 58>>
S_UNKNOWN == <<117, 110, 107, 110, 111, 119, 110>>
S_REQ == <<114, 101, 113, 117, 101, 115, 116, 95, 101, 114, 114, 111, 114, 58>>
S_STATUS == <<115, 116, 97, 116, 117, 115, 58>>
S_IO == <<105, 111, 95, 111, 114, 95, 115, 116, 114, 101, 97, 109, 58>>
S_REQFAILED == <<114, 101, 113, 117, 101, 115, 116, 95, 102, 97, 105, 108, 101, 100>>

\* ------------------------------------------------------------------------
\* Python string and bytes primitives
\* ------------------------------------------------------------------------
\* bytes.lstrip() strips ASCII whitespace: space \t \n \v \f \r
BytesSpace == {32, 9, 10, 11, 12, 13}
\* str.strip() strips str.isspace() characters; in the ASCII range these are
StrSpace == {32, 9, 10, 11, 12, 13, 28, 29, 30, 31}

RECURSIVE LstripOf(_, _)
LstripOf(b, ws) ==
    IF b # <<>> /\ Head(b) \in ws THEN LstripOf(Tail(b), ws) ELSE b

RECURSIVE RstripOf(_, _)
RstripOf(b, ws) ==
    IF b # <<>> /\ b[Len(b)] \in ws THEN RstripOf(SubSeq(b, 1, Len(b) - 1), ws) ELSE b

\* b[:n]
Take(b, n) == SubSeq(b, 1, IF Len(b) < n THEN Len(b) ELSE n)

\* .lower() on ASCII
Lower(b) == [i \in 1..Len(b) |-> IF b[i] >= 65 /\ b[i] <= 90 THEN b[i] + 32 ELSE b[i]]

\* s.startswith(p)
StartsWith(s, p) == Len(s) >= Len(p) /\ SubSeq(s, 1, Len(p)) = p

\* s.split(sep)[0]: the part of s before the first sep
RECURSIVE SplitFirst(_, _)
SplitFirst(s, sep) ==
    IF s = <<>> \/ Head(s) = sep THEN <<>> ELSE <<Head(s)>> \o SplitFirst(Tail(s), sep)

\* str(n) for n >= 0, as used by the f-strings
RECURSIVE Str(_)
Str(n) == IF n < 10 THEN <<48 + n>> ELSE Str(n \div 10) \o <<48 + (n % 10)>>

RECURSIVE Concat(_)
Concat(chunks) == IF chunks = <<>> THEN <<>> ELSE Head(chunks) \o Concat(Tail(chunks))

\* ------------------------------------------------------------------------
\* Pure functions of zip_data.py
\* ------------------------------------------------------------------------
NoFile == [exists |-> FALSE, data |-> <<>>]
File(d) == [exists |-> TRUE, data |-> d]

\* A plausible slip: the 100-byte threshold of the save path used as the
\* presence test
tile_exists_ok_big(p) == p.exists /\ Len(p.data) > 100

tile_exists_ok(p) == p.exists /\ Len(p.data) > 0

is_bad_mime(ct) ==
    IF ct = <<>> THEN TRUE
    ELSE Lower(RstripOf(LstripOf(SplitFirst(ct, 59), StrSpace), StrSpace)) \notin ACCEPTABLE_CT

\* A plausible slip: truncate to 64 bytes before trimming, and forget .lower()
looks_like_html_or_json_raw(b) ==
    LET s == LstripOf(Take(b, SniffLen), BytesSpace)
    IN  StartsWith(s, P_DOCTYPE) \/ StartsWith(s, P_HTML) \/ StartsWith(s, P_BRACE)

looks_like_html_or_json(b) ==
    LET s == Lower(Take(LstripOf(b, BytesSpace), SniffLen))
    IN  StartsWith(s, P_DOCTYPE) \/ StartsWith(s, P_HTML) \/ StartsWith(s, P_BRACE)

\* f"{z}/{x}/{y}  {reason}\n"
LogLine(c, reason) ==
    Str(c[1]) \o <<47>> \o Str(c[2]) \o <<47>> \o Str(c[3]) \o <<32, 32>> \o reason \o <<10>>

\* range(a, b + 1) as a sequence
RangeSeq(a, b) == [i \in 1..(IF b >= a THEN b - a + 1 ELSE 0) |-> a + i - 1]

\* for y in y_range: yield (z, x, y)
RECURSIVE tiles_y(_, _, _)
tiles_y(z, x, y_range) ==
    IF y_range = <<>> THEN <<>>
    ELSE << <<z, x, Head(y_range)>> >> \o tiles_y(z, x, Tail(y_range))

\* A plausible slip: the two inner loops nested the other way round
tiles_x_yfirst(z, x_range, y_range) ==
    [i \in 1..(Len(x_range) * Len(y_range)) |->
        <<z, x_range[((i - 1) % Len(x_range)) + 1], y_range[((i - 1) \div Len(x_range)) + 1]>>]

\* for x in x_range: for y in y_range: ...
RECURSIVE tiles_x(_, _, _)
tiles_x(z, x_range, y_range) ==
    IF x_range = <<>> THEN <<>>
    ELSE tiles_y(z, Head(x_range), y_range) \o tiles_x(z, Tail(x_range), y_range)

\* for z in z_range: for x in x_range: for y in y_range: yield (z, x, y)
RECURSIVE generate_tiles(_, _, _)
generate_tiles(z_range, x_range, y_range) ==
    IF z_range = <<>> THEN <<>>
    ELSE tiles_x(Head(z_range), x_range, y_range) \o generate_tiles(Tail(z_range), x_range, y_range)

\* ------------------------------------------------------------------------
\* The upstream server: what one session.get(url, stream=True) can produce
\* ------------------------------------------------------------------------
\* kind "exc":  session.get raises, str(e) = msg
\* kind "http": a response with status, Content-Type header (has_ct, ct) and
\*              a body delivered by iter_content as chunks; broken_at = k > 0
\*              means the k-th next() on the iterator raises, str(e) = msg
NoResp == [kind |-> "none", status |-> 0, has_ct |-> FALSE, ct |-> <<>>,
           chunks |-> <<>>, broken_at |-> 0, msg |-> <<>>]

Http(status, has_ct, ct, chunks, broken_at, msg) ==
    [kind |-> "http", status |-> status, has_ct |-> has_ct, ct |-> ct,
     chunks |-> chunks, broken_at |-> broken_at, msg |-> msg]

\* "timeout", "eio"
M_TIMEOUT == <<116, 105, 109, 101, 111, 117, 116>>
M_EIO == <<101, 105, 111>>
\* '{"error":1}', ' \n<HTML>', 'hello'
B_JSON == <<123, 34, 101, 114, 114, 111, 114, 34, 58, 49, 125>>
B_HTML == <<32, 10, 60, 72, 84, 77, 76, 62>>
B_TEXT == <<104, 101, 108, 108, 111>>
\* binary tile bytes
B_TILE1 == <<26, 2, 120>>
B_TILE2 == <<1, 2>>
\* "Application/X-Protobuf", "text/plain"
HDR_PROTOBUF == <<65, 112, 112, 108, 105, 99, 97, 116, 105, 111, 110, 47, 88, 45, 80, 114, 111, 116, 111, 98, 117, 102>>
HDR_TEXT == <<116, 101, 120, 116, 47, 112, 108, 97, 105, 110>>

R_exc     == [NoResp EXCEPT !.kind = "exc", !.msg = M_TIMEOUT]
R_404     == Http(404, TRUE, HDR_TEXT, <<>>, 0, <<>>)
R_empty   == Http(HttpOk, TRUE, CT_OCTET, <<>>, 0, <<>>)
R_json    == Http(HttpOk, FALSE, <<>>, <<B_JSON>>, 0, <<>>)
R_tile    == Http(HttpOk, TRUE, CT_OCTET, <<B_TILE1, B_TILE2>>, 0, <<>>)
R_text    == Http(HttpOk, TRUE, HDR_TEXT, <<B_TEXT>>, 0, <<>>)
R_cut     == Http(HttpOk, TRUE, CT_PROTOBUF, <<B_TILE1>>, 2, M_EIO)
R_broken  == Http(HttpOk, TRUE, CT_PROTOBUF, <<>>, 1, M_EIO)

\* What the server may answer in the runs of the whole pipeline: one answer
\* for each way in which an attempt can end (session.get raising, a status
\* other than 200, an empty body, a poisoned body, a tile, a body stream that
\* raises)
Responses == {R_exc, R_404, R_empty, R_json, R_tile, R_cut}

\* Further answers, for the runs of a single download_tile
\* ' \n<HTML>' declared as protobuf; '<!DocType html>' declared text/html;
\* 70 spaces then '{'; 'x{' and '<htm' (not poisoned); an empty first chunk
\* before data; an empty chunk in mid-stream; a declared type with parameters
B_DOCTYPE == <<60, 33, 68, 111, 99, 84, 121, 112, 101, 32, 104, 116, 109, 108, 62>>
B_XBRACE == <<120, 123>>
B_HTM == <<60, 104, 116, 109>>
B_SPACES == [i \in 1..71 |-> IF i <= 70 THEN 32 ELSE 123]
HDR_HTML == <<116, 101, 120, 116, 47, 104, 116, 109, 108>>
HDR_OCTET == <<65, 112, 112, 108, 105, 99, 97, 116, 105, 111, 110, 47, 79, 99, 116, 101, 116, 45, 83, 116, 114, 101, 97, 109, 59, 32, 99, 104, 97, 114, 115, 101, 116, 61, 98, 105, 110, 97, 114, 121>>

R_html    == Http(HttpOk, TRUE, HDR_PROTOBUF, <<B_HTML, B_TEXT>>, 0, <<>>)
R_doctype == Http(HttpOk, TRUE, HDR_HTML, <<B_DOCTYPE>>, 0, <<>>)
R_spaces  == Http(HttpOk, TRUE, CT_OCTET, <<B_SPACES>>, 0, <<>>)
R_xbrace  == Http(HttpOk, TRUE, CT_PROTOBUF, <<B_XBRACE>>, 0, <<>>)
R_htm     == Http(HttpOk, FALSE, <<>>, <<B_HTM>>, 0, <<>>)
R_gap     == Http(HttpOk, TRUE, HDR_OCTET, <<B_TILE1, <<>>, B_TILE2>>, 0, <<>>)
R_late    == Http(HttpOk, TRUE, CT_OCTET, << <<>>, B_TILE1>>, 0, <<>>)
R_503     == Http(503, FALSE, <<>>, <<>>, 0, <<>>)

TileResponses ==
    Responses \cup {R_text, R_broken, R_html, R_doctype, R_spaces, R_xbrace, R_htm,
                    R_gap, R_late, R_503}

\* Content already on disk before the run: nothing, the debris of an
\* interrupted run (zero-length tile, stale .part), or a valid tile.
B_OLD == <<26, 7>>
B_STALE == <<26>>
FreshDisk == [dest |-> NoFile, part |-> NoFile]
ValidDisk == [dest |-> File(B_OLD), part |-> NoFile]
PoolDiskStates == {FreshDisk, ValidDisk}
DiskStates ==
    PoolDiskStates \cup
    { [dest |-> NoFile,      part |-> File(B_STALE)],
      [dest |-> File(<<>>),  part |-> NoFile],
      [dest |-> File(<<>>),  part |-> File(B_STALE)],
      [dest |-> File(B_OLD), part |-> File(B_STALE)] }

\* ------------------------------------------------------------------------
\* State
\* ------------------------------------------------------------------------
VARIABLES
    args,        \* the parsed command line
    tk,          \* per coordinate: the future and download_tile's locals
    dest,        \* per coordinate: the file at tile_path(z, x, y)
    part,        \* per coordinate: the file at tile_path(z, x, y) + ".part"
    disk0,       \* per coordinate: dest and part as they were before the run
    log,         \* FAILED_FILE: its lines, in order
    work_queue,  \* the executor's queue of submitted, not yet started tasks
    m,           \* main(): position, comprehension progress, counters
    upstream,    \* per coordinate: the answers the server will give, if fixed
    run1         \* what an earlier run of the program over the same ranges left

vars == <<args, tk, dest, part, disk0, log, work_queue, m, upstream, run1>>

z_range == RangeSeq(args.z_start, args.z_end)
x_range == RangeSeq(args.x_start, args.x_end)
y_range == RangeSeq(args.y_start, args.y_end)
Tiles == generate_tiles(z_range, x_range, y_range)
TileSet == {Tiles[i] : i \in 1..Len(Tiles)}

\* download_tile's locals (None is <<>>; r and pos are the response being
\* streamed and the number of chunks taken from its iterator), and three
\* observations of the invocation: the requests it has issued, whether
\* every one of them was answered 200 with a poisoned body, the backoff
\* sleeps it has taken and the pause it is in after the rename (0: none), in
\* milliseconds; off is the length FAILED_FILE had when log_failure opened
\* it, in bytes.
NoLocals == [attempt |-> 0, last_reason |-> <<>>, r |-> NoResp, pos |-> 0,
             nreq |-> 0, all_poison |-> TRUE, waits |-> <<>>, pause |-> 0,
             off |-> 0]
Task(pc, result, locals) ==
    [pc |-> pc, result |-> result, attempt |-> locals.attempt,
     last_reason |-> locals.last_reason, r |-> locals.r, pos |-> locals.pos,
     nreq |-> locals.nreq, all_poison |-> locals.all_poison, waits |-> locals.waits,
     pause |-> locals.pause, off |-> locals.off]

Running(c) ==
    tk[c].pc \in {"begin", "fetch", "stream", "written", "sleep",
                  "log", "opened", "logged"}
InFlight == {c \in TileSet : Running(c)}

\* No earlier run
NoRun(S) == [over |-> FALSE, result |-> [c \in S |-> "none"], dest |-> [c \in S |-> NoFile]]

\* main's locals at its start
MainStart == [pc |-> "submit", submitted |-> 0, consumed |-> {},
              total |-> 0, saved |-> 0, skipped |-> 0, empty |-> 0, failed |-> 0]

\* The state after argument parsing, for command lines in A, tiles found on
\* disk as in D and a server whose answers to each coordinate are as in U
InitOn(A, D, U) ==
    /\ args \in A
    /\ upstream \in [TileSet -> U]
    /\ run1 = NoRun(TileSet)
    /\ tk = [c \in TileSet |-> Task("unsubmitted", "none", NoLocals)]
    /\ disk0 \in [TileSet -> D]
    /\ dest = [c \in TileSet |-> disk0[c].dest]
    /\ part = [c \in TileSet |-> disk0[c].part]
    /\ log = <<>>
    /\ work_queue = <<>>
    /\ m = MainStart

\* The same with a server that answers each request as it likes (nothing
\* fixed per coordinate)
InitWith(A, D) == InitOn(A, D, {<<>>})

\* The whole pipeline: zoom 3, x from 1 to x_end, y = 1
Init ==
    InitWith([z_start : {3}, z_end : {3}, x_start : {1}, x_end : 0..MaxXEnd,
              y_start : {1}, y_end : {1}, workers : 1..MaxWorkers],
             PoolDiskStates)

\* One coordinate, (3, 1, 1), or none (x_end = 0), on any disk
InitTile ==
    InitWith([z_start : {3}, z_end : {3}, x_start : {1}, x_end : {0, 1},
              y_start : {1}, y_end : {1}, workers : {1}],
             DiskStates)

\* What the server answers to the successive requests for one coordinate,
\* the same in every run; the last answer is repeated
Scripts == {<<R_tile>>, <<R_json, R_tile>>, <<R_404>>, <<R_empty>>}

\* The pipeline run twice against such a server, with --workers 1
InitTwice ==
    InitOn([z_start : {3}, z_end : {3}, x_start : {1}, x_end : 0..MaxXEnd,
            y_start : {1}, y_end : {1}, workers : {1}],
           PoolDiskStates, Scripts)

\* The enumeration and the submissions alone: every combination of ranges
\* starting at 1 or 2 and ending at 0..MaxEnd, empty ones included
InitEnum ==
    InitWith([z_start : 1..2, z_end : 0..MaxEnd, x_start : 1..2, x_end : 0..MaxEnd,
              y_start : 1..2, y_end : 0..MaxEnd, workers : {1}],
             {FreshDisk})

\* ------------------------------------------------------------------------
\* download_tile
\* ------------------------------------------------------------------------
\* _fetch_once for a response that session.get returned: (r, err, ct)
fetch_once(r) ==
    IF r.status # HttpOk
    THEN [ok |-> FALSE, err |-> S_STATUS \o Str(r.status), ct |-> <<>>]
    ELSE [ok |-> TRUE, err |-> <<>>, ct |-> Lower(IF r.has_ct THEN r.ct ELSE <<>>)]

\* first_chunk = next(it, b"")
first_chunk(r) == IF Len(r.chunks) >= 1 THEN r.chunks[1] ELSE <<>>

\* last_reason = last_reason or err or "request_failed"   (None is <<>>)
reason_no_response(last_reason, err) ==
    IF last_reason # <<>> THEN last_reason
    ELSE IF err # <<>> THEN err ELSE S_REQFAILED

\* f"html_or_json:{ct or 'unknown'}"
reason_poisoned(ct) == S_HJ_COLON \o (IF ct # <<>> THEN ct ELSE S_UNKNOWN)

\* A plausible slip: the cleanup is forgotten
remove_forgotten(f) == f

\* if os.path.exists(tmp_file): os.remove(tmp_file)
remove_if_exists(f) == NoFile

\* A plausible slip: the .part file opened with mode "ab"
write_first_append(f, chunk) == File(f.data \o chunk)

\* with open(tmp_file, "wb") as f: f.write(first_chunk)
write_first(f, chunk) == File(chunk)

\* A plausible slip: one retry too few
should_retry_short(last_reason, attempt) ==
    /\ last_reason # <<>>
    /\ StartsWith(last_reason, S_HJ)
    /\ attempt < HtmlRetries - 1

\* the retry decision at the end of the loop body
should_retry(last_reason, attempt) ==
    /\ last_reason # <<>>
    /\ StartsWith(last_reason, S_HJ)
    /\ attempt < HtmlRetries

\* random.uniform(0, 0.25) = 0.25 * random.random(), in [0, 0.25): the
\* values tried, in milliseconds
JitterSamples == {0, JitterMaxMs \div 2, JitterMaxMs - 1}
\* the value tried in the runs of the whole pipeline
PoolJitter == {0}

\* A plausible slip: a delay that grows linearly
backoff_linear(attempt, jitter) == BackoffBaseMs * (attempt + 1) + jitter

\* (0.5 * (2**attempt)) + random.uniform(0, 0.25), in milliseconds
backoff(attempt, jitter) == BackoffBaseMs * (2 ^ attempt) + jitter

\* The end of the loop body, with last_reason as the attempt left it:
\* sleep and continue while range(html_retries + 1) has a next value, else
\* leave the loop
Decide(t, lr, jitter) ==
    IF should_retry(lr, t.attempt) /\ t.attempt + 1 < HtmlRetries + 1
    THEN [t EXCEPT !.pc = "fetch", !.attempt = @ + 1, !.last_reason = lr, !.pos = 0,
                   !.waits = Append(@, backoff(t.attempt, jitter))]
    ELSE [t EXCEPT !.pc = "log", !.last_reason = lr, !.pos = 0]

\* return status: the locals are gone; the last response received stays on
\* record
Return(t, status) == Task("done", status, [NoLocals EXCEPT !.r = t.r])

\* A plausible slip: the loop over the remaining chunks is forgotten
AfterChunk_first(t, k) == [t EXCEPT !.pc = "written", !.pos = k]

\* The k-th chunk has been consumed; the with-block ends when the iterator
\* is exhausted without raising.
AfterChunk(t, k) ==
    IF k = Len(t.r.chunks) /\ t.r.broken_at # k + 1
    THEN [t EXCEPT !.pc = "written", !.pos = k]
    ELSE [t EXCEPT !.pc = "stream", !.pos = k]

\* The server answered 200 with a body whose first chunk sniffs as HTML/JSON
IsPoisoned(r) ==
    /\ r.kind = "http" /\ r.status = HttpOk /\ r.broken_at # 1
    /\ first_chunk(r) # <<>> /\ looks_like_html_or_json(first_chunk(r))

\* A plausible slip: one thread per task
pool_unbounded == TRUE

\* The executor has a free worker thread
pool_has_room == Cardinality(InFlight) < args.workers

\* A worker thread takes the oldest queued task
Start(c) ==
    /\ work_queue # <<>> /\ Head(work_queue) = c
    /\ pool_has_room
    /\ tk' = [tk EXCEPT ![c].pc = "begin"]
    /\ work_queue' = Tail(work_queue)
    /\ UNCHANGED <<args, upstream, run1, dest, part, disk0, log, m>>

\* lines 86-95: skip if present, else ensure_dir and enter the loop
Begin(c) ==
    /\ tk[c].pc = "begin"
    /\ tk' = [tk EXCEPT ![c] =
                IF tile_exists_ok(dest[c]) THEN Return(tk[c], "skipped")
                ELSE Task("fetch", "none", NoLocals)]
    /\ UNCHANGED <<args, upstream, run1, dest, part, disk0, log, work_queue, m>>

\* ensure_dir(out_dir) raises: the exception leaves download_tile
BeginMkdirFail(c) ==
    /\ tk[c].pc = "begin"
    /\ ~tile_exists_ok(dest[c])
    /\ tk' = [tk EXCEPT ![c] = Return(tk[c], "raised")]
    /\ UNCHANGED <<args, upstream, run1, dest, part, disk0, log, work_queue, m>>

\* One pass of the loop body up to the first write: request, first chunk,
\* classification, and the retry decision when the attempt ends here.
FetchFrom(c, server, jitters) ==
    /\ tk[c].pc = "fetch"
    /\ \E r \in server, jitter \in jitters :
        LET fo == fetch_once(r)
            ch == first_chunk(r)
            t  == [tk[c] EXCEPT !.r = r, !.nreq = @ + 1,
                                !.all_poison = @ /\ IsPoisoned(r)]
        IN  /\ IF r.kind = "exc"
               THEN /\ tk' = [tk EXCEPT ![c] = Decide(t, S_REQ \o r.msg, jitter)]
                    /\ part' = part
               ELSE IF ~fo.ok
               THEN /\ tk' = [tk EXCEPT ![c] =
                                Decide(t, reason_no_response(t.last_reason, fo.err), jitter)]
                    /\ part' = part
               ELSE IF r.broken_at = 1
               THEN /\ tk' = [tk EXCEPT ![c] = Decide(t, S_IO \o r.msg, jitter)]
                    /\ part' = [part EXCEPT ![c] = remove_if_exists(@)]
               ELSE IF ch = <<>>
               THEN /\ tk' = [tk EXCEPT ![c] = Return(t, "empty")]
                    /\ part' = [part EXCEPT ![c] = remove_if_exists(@)]
               ELSE IF looks_like_html_or_json(ch)
               THEN /\ tk' = [tk EXCEPT ![c] = Decide(t, reason_poisoned(fo.ct), jitter)]
                    /\ part' = [part EXCEPT ![c] = remove_if_exists(@)]
               ELSE /\ tk' = [tk EXCEPT ![c] = AfterChunk(t, 1)]
                    /\ part' = [part EXCEPT ![c] = write_first(@, ch)]
    /\ UNCHANGED <<args, upstream, run1, dest, disk0, log, work_queue, m>>

\* the answer to the n-th request of an invocation
Answer(script, n) == script[IF n < Len(script) THEN n ELSE Len(script)]

FetchSame(c) == FetchFrom(c, {Answer(upstream[c], tk[c].nreq + 1)}, PoolJitter)
Fetch(c) == FetchFrom(c, Responses, PoolJitter)
FetchTile(c) == FetchFrom(c, TileResponses, JitterSamples)

\* for chunk in it: if chunk: f.write(chunk)    -- one iteration
Stream(c) ==
    /\ tk[c].pc = "stream"
    /\ LET t == tk[c]
           k == t.pos + 1
       IN  IF t.r.broken_at = k
           THEN /\ \E jitter \in JitterSamples :
                     tk' = [tk EXCEPT ![c] = Decide(t, S_IO \o t.r.msg, jitter)]
                /\ part' = [part EXCEPT ![c] = remove_if_exists(@)]
           ELSE /\ tk' = [tk EXCEPT ![c] = AfterChunk(t, k)]
                /\ part' = [part EXCEPT ![c] =
                              IF t.r.chunks[k] # <<>>
                              THEN File(@.data \o t.r.chunks[k]) ELSE @]
    /\ UNCHANGED <<args, upstream, run1, dest, disk0, log, work_queue, m>>

\* 0.01 + random.random() * 0.02, in [0.01, 0.03): the values tried, in
\* milliseconds
PauseSamples == {PauseBaseMs, PauseBaseMs + PauseSpanMs \div 2, PauseBaseMs + PauseSpanMs - 1}
\* the value tried in the runs of the whole pipeline
PoolPause == {PauseBaseMs}

\* os.replace(tmp_file, out_file), and the call of time.sleep: the tile is
\* published while the invocation is still running
ReplaceThen(c, pauses) ==
    /\ tk[c].pc = "written"
    /\ dest' = [dest EXCEPT ![c] = part[c]]
    /\ part' = [part EXCEPT ![c] = NoFile]
    /\ \E pause \in pauses :
          tk' = [tk EXCEPT ![c].pc = "sleep", ![c].pause = pause]
    /\ UNCHANGED <<args, upstream, run1, disk0, log, work_queue, m>>

Replace(c) == ReplaceThen(c, PoolPause)
ReplaceTile(c) == ReplaceThen(c, PauseSamples)

\* time.sleep returns; return "saved"
ReturnSaved(c) ==
    /\ tk[c].pc = "sleep"
    /\ tk' = [tk EXCEPT ![c] = Return(tk[c], "saved")]
    /\ UNCHANGED <<args, upstream, run1, dest, part, disk0, log, work_queue, m>>

\* os.replace raises OSError: the except clause removes the .part file
ReplaceFail(c) ==
    /\ tk[c].pc = "written"
    /\ part' = [part EXCEPT ![c] = remove_if_exists(@)]
    /\ \E jitter \in JitterSamples :
          tk' = [tk EXCEPT ![c] = Decide(tk[c], S_IO \o M_EIO, jitter)]
    /\ UNCHANGED <<args, upstream, run1, dest, disk0, log, work_queue, m>>

\* The bytes of FAILED_FILE: its lines laid end to end
Flat(lg) == Concat([i \in 1..Len(lg) |-> lg[i].text])

\* The lines of a file: each ends with its "\n", except a last one cut short
RECURSIVE Lines(_)
Lines(b) ==
    IF b = <<>> THEN <<>>
    ELSE LET n == CHOOSE k \in 1..Len(b) :
                      /\ b[k] = 10 \/ k = Len(b)
                      /\ \A i \in 1..(k - 1) : b[i] # 10
         IN  <<SubSeq(b, 1, n)>> \o Lines(SubSeq(b, n + 1, Len(b)))

\* f"{z}/{x}/{y}  ": what a record of coordinate c starts with
LinePrefix(c) == SubSeq(LogLine(c, <<>>), 1, Len(LogLine(c, <<>>)) - 1)

\* The coordinate that a line of FAILED_FILE names at its start, <<>> if none
LineOwner(text) ==
    LET named == {c \in TileSet : StartsWith(text, LinePrefix(c))}
    IN  IF named = {} THEN <<>> ELSE CHOOSE c \in named : TRUE

\* FAILED_FILE as its lines, each with the coordinate it names
Records(b) ==
    LET ls == Lines(b)
    IN  [i \in 1..Len(ls) |-> [zxy |-> LineOwner(ls[i]), text |-> ls[i]]]

\* A plausible slip: the line stays in the buffer and never reaches the file
write_dropped(lg, off, line) == lg

\* write(fd, line) with the file position at byte off: the bytes replace what
\* is there and extend the file beyond its end
write_at(lg, off, line) ==
    LET b == Flat(lg)
        n == IF Len(b) > off + Len(line) THEN Len(b) ELSE off + Len(line)
    IN  Records([i \in 1..n |->
                    IF i > off /\ i <= off + Len(line) THEN line[i - off] ELSE b[i]])

\* f"{z}/{x}/{y}  {reason}\n" with reason = last_reason or "unknown"
FailureLine(c) ==
    LogLine(c, IF tk[c].last_reason # <<>> THEN tk[c].last_reason ELSE S_UNKNOWN)

\* A plausible slip: a descriptor without O_APPEND, whose write goes where
\* the open left the file position
append_offset_seen(lg, seen) == seen

\* The position of a write on a descriptor opened in append mode: the end
\* that the file has when the write is made, whatever it was at open()
append_offset(lg, seen) == Len(Flat(lg))

\* log_failure(z, x, y, last_reason or "unknown") as far as into the
\* with-block: ensure_dir, open(FAILED_FILE, "a") on a descriptor of the call's
\* own, positioned at the end the file has now, and f.write(line) into the
\* file object's buffer.  Nothing has reached the file; no lock is held.
LogOpen(c) ==
    /\ tk[c].pc = "log"
    /\ tk' = [tk EXCEPT ![c].pc = "opened", ![c].off = Len(Flat(log))]
    /\ UNCHANGED <<args, upstream, run1, dest, part, disk0, log, work_queue, m>>

\* The with-block ends: close() flushes the buffered line by one write, which
\* append mode puts at the end of the file
LogAppend(c) ==
    /\ tk[c].pc = "opened"
    /\ log' = write_at(log, append_offset(log, tk[c].off), FailureLine(c))
    /\ tk' = [tk EXCEPT ![c].pc = "logged"]
    /\ UNCHANGED <<args, upstream, run1, dest, part, disk0, work_queue, m>>

\* the file is closed and log_failure returns; return "failed"
LogReturn(c) ==
    /\ tk[c].pc = "logged"
    /\ tk' = [tk EXCEPT ![c] = Return(tk[c], "failed")]
    /\ UNCHANGED <<args, upstream, run1, dest, part, disk0, log, work_queue, m>>

\* log_failure and the return that follows it
LogFailure(c) == LogOpen(c) \/ LogAppend(c) \/ LogReturn(c)

\* ensure_dir or open(FAILED_FILE, "a") raises: the exception leaves
\* download_tile
LogFailureFail(c) ==
    /\ tk[c].pc = "log"
    /\ tk' = [tk EXCEPT ![c] = Return(tk[c], "raised")]
    /\ UNCHANGED <<args, upstream, run1, dest, part, disk0, log, work_queue, m>>

\* ------------------------------------------------------------------------
\* main
\* ------------------------------------------------------------------------
\* the dict comprehension: ex.submit(download_tile, session, z, x, y);
\* after the last coordinate, for fut in as_completed(fut2zxy)
Submit ==
    /\ m.pc = "submit" /\ m.submitted < Len(Tiles)
    /\ LET c == Tiles[m.submitted + 1]
       IN  /\ tk' = [tk EXCEPT ![c].pc = "queued"]
           /\ work_queue' = Append(work_queue, c)
    /\ m' = [m EXCEPT !.submitted = @ + 1,
                      !.pc = IF m.submitted + 1 = Len(Tiles) THEN "harvest" ELSE @]
    /\ UNCHANGED <<args, upstream, run1, dest, part, disk0, log>>

\* generate_tiles yields nothing: the dict is empty
SubmitNone ==
    /\ m.pc = "submit" /\ Len(Tiles) = 0
    /\ m' = [m EXCEPT !.pc = "harvest"]
    /\ UNCHANGED <<args, upstream, run1, tk, dest, part, disk0, log, work_queue>>

\* one iteration of the as_completed loop, for a future that returned
Harvest(c) ==
    /\ m.pc = "harvest" /\ tk[c].pc = "done" /\ c \notin m.consumed
    /\ tk[c].result # "raised"
    /\ LET status == tk[c].result
       IN  m' = [m EXCEPT !.consumed = @ \cup {c},
                          !.total = @ + 1,
                          !.saved = IF status = "saved" THEN @ + 1 ELSE @,
                          !.skipped = IF status = "skipped" THEN @ + 1 ELSE @,
                          !.empty = IF status = "empty" THEN @ + 1 ELSE @,
                          !.failed = IF status \notin {"saved", "skipped", "empty"}
                                     THEN @ + 1 ELSE @]
    /\ UNCHANGED <<args, upstream, run1, tk, dest, part, disk0, log, work_queue>>

\* fut.result() re-raises the task's exception: it leaves the loop
HarvestRaise(c) ==
    /\ m.pc = "harvest" /\ tk[c].pc = "done" /\ c \notin m.consumed
    /\ tk[c].result = "raised"
    /\ m' = [m EXCEPT !.consumed = @ \cup {c}, !.pc = "unwind"]
    /\ UNCHANGED <<args, upstream, run1, tk, dest, part, disk0, log, work_queue>>

\* the with-block exits once every task has finished; then the summary
Finish ==
    /\ m.pc = "harvest" /\ m.consumed = TileSet
    /\ m' = [m EXCEPT !.pc = "done"]
    /\ UNCHANGED <<args, upstream, run1, tk, dest, part, disk0, log, work_queue>>

\* the with-block's shutdown(wait=True) lets the remaining tasks finish,
\* then the exception leaves main: no summary
Abort ==
    /\ m.pc = "unwind" /\ \A c \in TileSet : tk[c].pc = "done"
    /\ m' = [m EXCEPT !.pc = "aborted"]
    /\ UNCHANGED <<args, upstream, run1, tk, dest, part, disk0, log, work_queue>>

\* The program is started again with the same command line, on the disk and
\* the log file as the first run left them
Rerun ==
    /\ m.pc \in {"done", "aborted"} /\ ~run1.over
    /\ run1' = [over |-> TRUE, result |-> [c \in TileSet |-> tk[c].result], dest |-> dest]
    /\ disk0' = [c \in TileSet |-> [dest |-> dest[c], part |-> part[c]]]
    /\ tk' = [c \in TileSet |-> Task("unsubmitted", "none", NoLocals)]
    /\ work_queue' = <<>>
    /\ m' = MainStart
    /\ UNCHANGED <<args, upstream, dest, part, log>>

Worker(c) ==
    \/ Start(c) \/ Begin(c) \/ Stream(c)
    \/ ReplaceFail(c) \/ ReturnSaved(c) \/ LogFailure(c)

Fault(c) == BeginMkdirFail(c) \/ LogFailureFail(c) \/ HarvestRaise(c)

Main == Submit \/ SubmitNone \/ (\E c \in TileSet : Harvest(c)) \/ Finish

\* The pipeline on a disk where directory creation and the opening of the
\* log succeed
NextDiskOk ==
    \/ Main
    \/ \E c \in TileSet : Worker(c) \/ Fetch(c) \/ Replace(c)
SpecDiskOk == Init /\ [][NextDiskOk]_vars

\* The pipeline on any disk: directory creation and the opening of the log
\* may raise
Next ==
    \/ Main
    \/ \E c \in TileSet : Worker(c) \/ Fetch(c) \/ Replace(c)
    \/ \E c \in TileSet : Fault(c)
    \/ Abort
Spec == Init /\ [][Next]_vars

\* Every coordinate a command line of Init can name
AllTiles == {<<3, x, 1>> : x \in 1..MaxXEnd}

\* The steps of the thread that runs download_tile for c, and of main
WorkerStep(c) ==
    c \in TileSet /\ (Worker(c) \/ Fetch(c) \/ Replace(c) \/ BeginMkdirFail(c)
                       \/ LogFailureFail(c))
MainStep == Main \/ (\E c \in TileSet : HarvestRaise(c)) \/ Abort

\* The pipeline on any disk, every call returning and every thread scheduled:
\* main and each worker thread take a step when they can
SpecFair ==
    /\ Spec
    /\ WF_vars(MainStep)
    /\ \A c \in AllTiles : WF_vars(WorkerStep(c))

\* One download_tile against the wider server, on any disk
NextTile ==
    \/ Main
    \/ \E c \in TileSet : Worker(c) \/ FetchTile(c) \/ ReplaceTile(c)
    \/ \E c \in TileSet : Fault(c)
    \/ Abort
SpecTile == InitTile /\ [][NextTile]_vars

\* One coordinate, two runs, the server free to answer differently
NextTileTwice == NextTile \/ Rerun
SpecTileTwice == InitTile /\ [][NextTileTwice]_vars

\* Two runs against a server whose answers are fixed per coordinate, on any
\* disk: directory creation, renames and the opening of the log may fail in
\* either run
NextTwice ==
    \/ Main
    \/ \E c \in TileSet : Worker(c) \/ FetchSame(c) \/ Replace(c)
    \/ \E c \in TileSet : Fault(c)
    \/ Abort
    \/ Rerun
SpecTwice == InitTwice /\ [][NextTwice]_vars

\* main's comprehension drawing from generate_tiles, for any ranges
NextEnum == Submit \/ SubmitNone
SpecEnum == InitEnum /\ [][NextEnum]_vars

\* ------------------------------------------------------------------------
\* Properties
\* ------------------------------------------------------------------------
\* the indices of the failure-log records written for coordinate c
RecordsOf(c) == {i \in 1..Len(log) : log[i].zxy = c}

\* "<zoom>/<x>/<y>  " for one-digit coordinates
CoordPrefix(c) == <<48 + c[1], 47, 48 + c[2], 47, 48 + c[3], 32, 32>>

\* the file was on disk with non-zero length
NonEmptyFile(f) == f.exists /\ f.data # <<>>

\* C1: a coordinate whose destination file exists with non-zero length when
\* download_tile starts is Skipped: the invocation never reaches the request
\* loop (no HTTP request), the destination and the .part path stay as they
\* were, and no failure-log record is written for it.
C1_PresentIsSkipped ==
    \A c \in TileSet :
        NonEmptyFile(disk0[c].dest) =>
            /\ tk[c].pc \in {"unsubmitted", "queued", "begin", "done"}
            /\ tk[c].nreq = 0
            /\ tk[c].r = NoResp
            /\ tk[c].pc = "done" => tk[c].result = "skipped"
            /\ dest[c] = disk0[c].dest
            /\ part[c] = disk0[c].part
            /\ RecordsOf(c) = {}

C1_Witness ==
    \E c \in TileSet :
        /\ NonEmptyFile(disk0[c].dest)
        /\ tk[c].pc = "done" /\ tk[c].result = "skipped"
        /\ c \in m.consumed /\ m.skipped = 1

\* C2: against a server that answers every request for a coordinate with a
\* 200 whose body is poisoned, download_tile issues exactly 1 + html_retries
\* requests, writes nothing to the failure log before it finalizes, and
\* finalizes as Failed with exactly one record "<z>/<x>/<y>  html_or_json:..."
\* appended (by log_failure, after the last request and before the return);
\* a finished invocation appends nothing more.
C2_PoisonedRetryBound ==
    [][\A c \in TileSet :
        /\ (tk[c].all_poison /\ tk[c].nreq > 0 /\ tk[c].pc # "done") =>
              /\ tk[c].pc \in {"fetch", "log", "opened", "logged"}
              /\ tk[c].nreq <= 1 + HtmlRetries
              /\ tk[c].pc = "fetch" => tk[c].nreq = tk[c].attempt
              /\ tk[c].pc # "logged" => RecordsOf(c) = {}
              /\ tk[c].pc # "fetch" => tk[c].nreq = 1 + HtmlRetries
              /\ (tk[c].pc = "log" /\ tk'[c] # tk[c]) =>
                    /\ tk'[c].pc = "opened" /\ log' = log
              /\ (tk[c].pc = "opened" /\ tk'[c] # tk[c]) =>
                    /\ tk'[c].pc = "logged"
                    /\ Len(log') = Len(log) + 1
                    /\ SubSeq(log', 1, Len(log)) = log
                    /\ log'[Len(log')].zxy = c
                    /\ StartsWith(log'[Len(log')].text, CoordPrefix(c) \o S_HJ_COLON)
              /\ tk[c].pc = "logged" =>
                    /\ Cardinality(RecordsOf(c)) = 1
                    /\ tk'[c] # tk[c] =>
                          /\ tk'[c].pc = "done" /\ tk'[c].result = "failed"
                          /\ log' = log
        /\ tk[c].pc = "done" => \A i \in 1..Len(log') : log'[i].zxy = c => i <= Len(log)
      ]_vars

C2_Witness ==
    \E c \in TileSet :
        /\ tk[c].pc = "log" /\ tk[c].all_poison
        /\ tk[c].nreq = 1 + HtmlRetries
        /\ StartsWith(tk[c].last_reason, S_HJ_COLON)

\* C3 (as claimed): another request is issued after an attempt only if that
\* attempt itself ended in a poisoning classification and its index is below
\* html_retries; an attempt that ended in a request exception, a non-200
\* status or a stream I/O error is never followed by a further attempt.
\* (tk[c].r is the response of the attempt that just ended; pc = "fetch"
\* with nreq > 0 is the loop having continued towards the next request.)
C3_RetryOnlyAfterPoisonedAttempt ==
    \A c \in TileSet :
        (tk[c].pc = "fetch" /\ tk[c].nreq > 0) =>
            /\ tk[c].r.kind = "http" /\ tk[c].r.status = HttpOk
            /\ tk[c].r.broken_at = 0
            /\ tk[c].nreq <= HtmlRetries

\* the response was a 200 whose first body chunk is empty
EmptyFirstChunk(r) ==
    /\ r.kind = "http" /\ r.status = 200 /\ r.broken_at # 1
    /\ (r.chunks = <<>> \/ r.chunks[1] = <<>>)

\* C4: whenever the last response received is a 200 whose first body chunk
\* is empty, the invocation has terminated with Empty (no further attempt),
\* no failure-log record exists for the coordinate, no .part file is on disk
\* and the destination path is as it was (not a valid tile: not created).
C4_EmptyBodyIsEmpty ==
    \A c \in TileSet :
        EmptyFirstChunk(tk[c].r) =>
            /\ tk[c].pc = "done" /\ tk[c].result = "empty"
            /\ RecordsOf(c) = {}
            /\ ~part[c].exists
            /\ dest[c] = disk0[c].dest /\ ~NonEmptyFile(dest[c])

C4_Witness ==
    \E c \in TileSet :
        /\ EmptyFirstChunk(tk[c].r) /\ tk[c].r.chunks # <<>>
        /\ disk0[c].part.exists
        /\ tk[c].pc = "done" /\ c \in m.consumed /\ m.empty = 1

\* the complete body of a response whose stream does not break
Body(r) == Concat(r.chunks)

\* the invocation has renamed its .part file onto the destination: it is in
\* the pause that follows os.replace, or it has returned Saved
Published(c) ==
    \/ tk[c].pc = "sleep"
    \/ tk[c].pc = "done" /\ tk[c].result = "saved"

\* C5: in every state the destination path holds what it held before the
\* run (possibly nothing), or the complete body of the response whose .part
\* file the invocation has renamed onto it (the invocation is then pausing
\* before its return, or has returned Saved); while a .part file is being
\* written, after a failed rename, and in every other state of an invocation
\* it is untouched.
C5_AtomicPublish ==
    \A c \in TileSet :
        \/ dest[c] = disk0[c].dest
        \/ /\ Published(c)
           /\ tk[c].r.kind = "http" /\ tk[c].r.broken_at = 0
           /\ dest[c] = [exists |-> TRUE, data |-> Body(tk[c].r)]
           /\ ~part[c].exists

\* a multi-chunk body has just replaced the file found at the destination:
\* the whole body is there and the .part file is gone while the invocation is
\* still pausing before its return
C5_Witness ==
    \E c \in TileSet :
        /\ tk[c].pc = "sleep" /\ Len(tk[c].r.chunks) = 3
        /\ disk0[c].dest.exists /\ dest[c] # disk0[c].dest
        /\ dest[c].data = Body(tk[c].r) /\ ~part[c].exists

\* the outcomes returned so far with status s
Returned(s) == {c \in TileSet : tk[c].pc = "done" /\ tk[c].result = s}

\* C6 (as claimed): the counters always satisfy
\* total = saved + skipped + empty + failed, each counts consumed outcomes of
\* its variant only, and once the run is over (every dispatched coordinate
\* has completed and main has left the pool) total = N with every outcome
\* counted under its variant.
C6_CountersSumToN ==
    /\ m.total = m.saved + m.skipped + m.empty + m.failed
    /\ m.total <= Cardinality(m.consumed)
    /\ m.saved <= Cardinality(Returned("saved") \cap m.consumed)
    /\ m.skipped <= Cardinality(Returned("skipped") \cap m.consumed)
    /\ m.empty <= Cardinality(Returned("empty") \cap m.consumed)
    /\ m.failed <= Cardinality(Returned("failed") \cap m.consumed)
    /\ (m.pc \in {"done", "aborted"}) =>
          /\ \A c \in TileSet : tk[c].pc = "done"
          /\ m.total = Len(Tiles)
          /\ m.saved = Cardinality(Returned("saved"))
          /\ m.skipped = Cardinality(Returned("skipped"))
          /\ m.empty = Cardinality(Returned("empty"))
          /\ m.failed = Cardinality(Returned("failed"))

\* the invocations of download_tile that have started and not yet returned
Started == {c \in TileSet : tk[c].pc \notin {"unsubmitted", "queued", "done"}}

\* C7: at most --workers invocations of download_tile are in progress.
C7_BoundedConcurrency == Cardinality(Started) <= args.workers

\* the pool is full while a submitted coordinate waits; one of the slots is
\* held by an invocation that has published its tile and not yet returned
C7_Witness ==
    /\ Cardinality(Started) = args.workers
    /\ \E c \in TileSet : tk[c].pc = "queued"
    /\ \E c \in Started : tk[c].pc = "sleep" /\ dest[c] # disk0[c].dest

\* C8 (as claimed): no failure of a tile aborts the run: every invocation
\* that ends returns one of the four outcomes, main never leaves the
\* as_completed loop by an exception, and when the summary is emitted every
\* coordinate has been counted.
C8_FailureNeverAborts ==
    /\ \A c \in TileSet :
          tk[c].pc = "done" => tk[c].result \in {"saved", "skipped", "empty", "failed"}
    /\ m.pc \in {"submit", "harvest", "done"}
    /\ m.pc = "done" => m.total = Len(Tiles)

\* the declared Content-Type is missing or names neither accepted type
UnacceptableType(r) == is_bad_mime(IF r.has_ct THEN r.ct ELSE <<>>)

\* C9 (as claimed): a 200 response whose declared Content-Type is missing or
\* is neither application/x-protobuf nor application/octet-stream is never
\* written out: no attempt on it stages or publishes its body or yields Saved.
C9_BadContentTypeNeverSaved ==
    \A c \in TileSet :
        (tk[c].r.kind = "http" /\ tk[c].r.status = 200 /\ UnacceptableType(tk[c].r)) =>
            /\ tk[c].pc \notin {"stream", "written", "sleep"}
            /\ ~(tk[c].pc = "done" /\ tk[c].result = "saved")

\* the number of leading whitespace bytes of b
LeadingSpace(b) ==
    CHOOSE n \in 0..Len(b) :
        /\ \A i \in 1..n : b[i] \in BytesSpace
        /\ n = Len(b) \/ b[n + 1] \notin BytesSpace

\* b, after trimming leading whitespace and taking the first 64 bytes, starts
\* case-insensitively with '<!doctype', '<html' or '{'
SniffsAsHtmlOrJson(b) ==
    LET n    == LeadingSpace(b)
        len  == IF Len(b) - n < 64 THEN Len(b) - n ELSE 64
        lc(x) == IF x \in 65..90 THEN x + 32 ELSE x
    IN  \E p \in {P_DOCTYPE, P_HTML, P_BRACE} :
            /\ Len(p) <= len
            /\ \A i \in 1..Len(p) : lc(b[n + i]) = p[i]

\* C10: when the last response received is a 200 with a non-empty first chunk
\* that sniffs as HTML/JSON, whatever its declared Content-Type, the attempt
\* has been classified poisoned: the invocation is retrying or finalizing
\* with reason 'html_or_json:<content-type or unknown>' or has ended without
\* Saved, Empty or Skipped (the record, if written, carries that reason), and
\* neither a .part file nor a changed destination exists.
C10_SniffedIsPoisoned ==
    \A c \in TileSet :
        LET r == tk[c].r
            reason == S_HJ_COLON \o (IF r.has_ct /\ r.ct # <<>> THEN Lower(r.ct) ELSE S_UNKNOWN)
        IN  ( /\ r.kind = "http" /\ r.status = 200 /\ r.broken_at # 1
              /\ r.chunks # <<>> /\ r.chunks[1] # <<>>
              /\ SniffsAsHtmlOrJson(r.chunks[1]) ) =>
                /\ tk[c].pc \in {"fetch", "log", "opened", "logged", "done"}
                /\ tk[c].pc # "done" => tk[c].last_reason = reason
                /\ tk[c].pc = "done" => tk[c].result \in {"failed", "raised"}
                /\ (tk[c].pc = "done" /\ tk[c].result = "failed") =>
                      \E i \in 1..Len(log) :
                          /\ log[i].zxy = c
                          /\ log[i].text = CoordPrefix(c) \o reason \o <<10>>
                /\ ~part[c].exists
                /\ dest[c] = disk0[c].dest

\* poisoned bodies under an accepted binary type, one behind 70 spaces
C10_Witness ==
    /\ \E c \in TileSet :
          /\ tk[c].r.ct = CT_OCTET /\ tk[c].r.chunks # <<>>
          /\ Len(tk[c].r.chunks[1]) > 64
          /\ SniffsAsHtmlOrJson(tk[c].r.chunks[1])
          /\ tk[c].pc = "log" /\ disk0[c].part.exists
    /\ \A r \in {R_html, R_doctype, R_json} : SniffsAsHtmlOrJson(r.chunks[1])
    /\ \A r \in {R_xbrace, R_htm, R_tile} : ~SniffsAsHtmlOrJson(r.chunks[1])

\* the four outcomes of download_tile
Outcomes == {"saved", "skipped", "empty", "failed"}

\* C11: an invocation of download_tile produces its outcome once (a finished
\* invocation changes nothing more), and the failure log holds no record for
\* the coordinate before log_failure has written, exactly one record
\* "<zoom>/<x>/<y>  <reason>" from then on and once the outcome is Failed,
\* appended at the end of the file before the outcome is returned (the return
\* itself leaves the file alone), and none when the outcome is Saved, Skipped
\* or Empty (or when the invocation ended by an uncaught exception instead).
C11_OneOutcomeOneRecord ==
    [][\A c \in TileSet :
        /\ tk[c].pc = "done" => tk'[c] = tk[c]
        /\ tk'[c].pc \notin {"logged", "done"} =>
              \A i \in 1..Len(log') : log'[i].zxy # c
        /\ (tk'[c].pc = "done" /\ tk'[c].result # "failed") =>
              \A i \in 1..Len(log') : log'[i].zxy # c
        /\ (tk'[c].pc = "logged" \/ (tk'[c].pc = "done" /\ tk'[c].result = "failed")) =>
              \E i \in 1..Len(log') :
                  /\ log'[i].zxy = c
                  /\ \A j \in 1..Len(log') : log'[j].zxy = c => j = i
                  /\ StartsWith(log'[i].text, CoordPrefix(c))
                  /\ Len(log'[i].text) > Len(CoordPrefix(c)) + 1
                  /\ log'[i].text[Len(log'[i].text)] = 10
        /\ (tk[c].pc # "logged" /\ tk'[c].pc = "logged") =>
              /\ Len(log') = Len(log) + 1
              /\ SubSeq(log', 1, Len(log)) = log
              /\ log'[Len(log')].zxy = c
        /\ (tk[c].pc # "done" /\ tk'[c].pc = "done" /\ tk'[c].result = "failed") =>
              tk[c].pc = "logged" /\ log' = log
      ]_vars

\* a Failed outcome after a non-retryable status, recorded and counted
C11_Witness ==
    \E c \in TileSet :
        /\ tk[c].pc = "done" /\ tk[c].result = "failed"
        /\ tk[c].r = R_503
        /\ Len(log) = 1 /\ log[1].zxy = c
        /\ m.failed = 1

\* the number of newline bytes in a text
RECURSIVE Newlines(_)
Newlines(t) == IF t = <<>> THEN 0 ELSE (IF Head(t) = 10 THEN 1 ELSE 0) + Newlines(Tail(t))

\* the record is one whole line "<zoom>/<x>/<y>  <reason>\n" of its coordinate
WholeRecord(rec) ==
    /\ StartsWith(rec.text, CoordPrefix(rec.zxy))
    /\ Len(rec.text) > Len(CoordPrefix(rec.zxy)) + 1
    /\ rec.text[Len(rec.text)] = 10
    /\ Newlines(rec.text) = 1

\* the coordinates whose invocation has written its record: log_failure has
\* returned, or the invocation has returned Failed
Recorded ==
    {c \in TileSet : tk[c].pc = "logged" \/ (tk[c].pc = "done" /\ tk[c].result = "failed")}

\* C12: with several workers failing at once, the failure log is
\* in every state a sequence of whole records: every record is one whole line
\* of a coordinate whose invocation has written it, no coordinate has two
\* records, and every such coordinate has its record (none was overwritten,
\* cut short or lost by another worker's write).
C12_AppendsSerialized ==
    /\ \A i \in 1..Len(log) :
          /\ log[i].zxy \in Recorded
          /\ WholeRecord(log[i])
          /\ \A j \in 1..Len(log) : log[j].zxy = log[i].zxy => j = i
    /\ \A c \in Recorded : \E i \in 1..Len(log) : log[i].zxy = c
    /\ Len(log) = Cardinality(Recorded)

\* two workers were inside log_failure at once: the one had opened the file
\* while it was empty, the other wrote its line first, and the line of the
\* one is in the file after it
C12_Witness ==
    \E c, d \in TileSet :
        /\ c # d
        /\ tk[d].pc = "logged" /\ tk[d].off = 0
        /\ Len(log) = 2 /\ log[1].zxy = c /\ log[2].zxy = d

\* the coordinates drawn from generate_tiles and turned into tasks that have
\* not completed
Pending == {c \in TileSet : tk[c].pc \notin {"unsubmitted", "done"}}

\* C14 (as claimed): coordinates are pulled incrementally: when the space
\* holds more coordinates than there are workers, the tasks created and not
\* yet completed never amount to the whole space.
C14_IncrementalPull ==
    Len(Tiles) > args.workers => Cardinality(Pending) < Len(Tiles)

\* the invocation met an I/O exception while streaming the last response
StreamBroke(t) ==
    /\ t.r.kind = "http" /\ t.r.status = HttpOk /\ t.r.broken_at > 0
    /\ t.pc \in {"log", "opened", "logged", "done"}

\* C15 (as claimed): when download_tile has returned, with any outcome, no
\* .part file exists for the coordinate; and after a stream I/O exception the
\* destination path is as it was before.
C15_NoPartLeftBehind ==
    \A c \in TileSet :
        /\ (tk[c].pc = "done" /\ tk[c].result \in Outcomes) => ~part[c].exists
        /\ StreamBroke(tk[c]) => dest[c] = disk0[c].dest

\* the reason produced by an attempt that got no usable response
ReasonOfAttempt(r) ==
    IF r.kind = "exc" THEN S_REQ \o r.msg ELSE S_STATUS \o Str(r.status)

\* C20 (as claimed): the reason in the failure-log record of a Failed
\* coordinate is the reason of the last attempt made; here for a last attempt
\* that ended in a request exception or a non-200 status.
C20_LoggedReasonIsLast ==
    \A c \in TileSet :
        ( /\ tk[c].pc = "done" /\ tk[c].result = "failed"
          /\ (tk[c].r.kind = "exc" \/ tk[c].r.status # HttpOk) ) =>
            \A i \in 1..Len(log) :
                log[i].zxy = c =>
                    log[i].text = CoordPrefix(c) \o ReasonOfAttempt(tk[c].r) \o <<10>>

\* the number of integers in the inclusive range [a, b]
RangeSize(a, b) == IF b < a THEN 0 ELSE b - a + 1

\* C16: generate_tiles yields the Cartesian product of the three inclusive
\* ranges, each triple exactly once, in nested order zoom, then x, then y
\* (the i-th triple is given in closed form), the same sequence whenever it
\* is evaluated on the same ranges, and nothing when a range is empty; the
\* comprehension submits the triples drawn so far, in that order, once each.
C16_TilesAreTheProduct ==
    LET nz == RangeSize(args.z_start, args.z_end)
        nx == RangeSize(args.x_start, args.x_end)
        ny == RangeSize(args.y_start, args.y_end)
        product == {<<z, x, y>> : z \in args.z_start..args.z_end,
                                  x \in args.x_start..args.x_end,
                                  y \in args.y_start..args.y_end}
    IN  /\ Len(Tiles) = nz * nx * ny
        /\ \A i \in 1..Len(Tiles) :
              Tiles[i] = <<args.z_start + ((i - 1) \div (nx * ny)),
                           args.x_start + (((i - 1) \div ny) % nx),
                           args.y_start + ((i - 1) % ny)>>
        /\ \A c \in product : Cardinality({i \in 1..Len(Tiles) : Tiles[i] = c}) = 1
        /\ \A i \in 1..Len(Tiles) : Tiles[i] \in product
        /\ (args.z_end < args.z_start \/ args.x_end < args.x_start
                \/ args.y_end < args.y_start) => Tiles = <<>>
        /\ generate_tiles(z_range, x_range, y_range) = Tiles
        /\ Len(work_queue) = m.submitted
        /\ \A i \in 1..Len(work_queue) : work_queue[i] = Tiles[i]
        /\ \A c \in product :
              tk[c].pc = (IF \E i \in 1..m.submitted : Tiles[i] = c
                          THEN "queued" ELSE "unsubmitted")
        /\ m.pc = "harvest" => m.submitted = Len(Tiles)

\* eight coordinates over three two-valued ranges, all submitted
C16_Witness ==
    /\ args.z_start = 1 /\ args.z_end = 2
    /\ args.x_start = 1 /\ args.x_end = 2
    /\ args.y_start = 1 /\ args.y_end = 2
    /\ m.pc = "harvest"
    /\ work_queue = << <<1, 1, 1>>, <<1, 1, 2>>, <<1, 2, 1>>, <<1, 2, 2>>,
                       <<2, 1, 1>>, <<2, 1, 2>>, <<2, 2, 1>>, <<2, 2, 2>> >>

\* C18: in a running invocation that is at attempt n (counted from 0),
\* exactly n backoff waits have been taken, one before each retry and none
\* after the attempt in progress or the last one made; the wait that followed
\* attempt k lasted at least 0.5 * 2^k s and at most 0.5 * 2^k + 0.25 s
\* (500, 1000, 2000 ms base for html_retries = 3). The pause of a saving
\* invocation after os.replace is no backoff wait: it adds none to the waits
\* taken, lasts at least 10 and less than 30 ms, and occurs on that path only.
C18_BackoffDoubles ==
    \A c \in TileSet :
        /\ tk[c].pc \in {"fetch", "stream", "written", "sleep",
                          "log", "opened", "logged"} =>
              /\ Len(tk[c].waits) = tk[c].attempt
              /\ Len(tk[c].waits) <= 3
              /\ \A i \in 1..Len(tk[c].waits) :
                    LET base == IF i = 1 THEN 500 ELSE IF i = 2 THEN 1000 ELSE 2000
                    IN  /\ tk[c].waits[i] >= base
                        /\ tk[c].waits[i] <= base + 250
        /\ tk[c].pc = "sleep" => tk[c].pause >= 10 /\ tk[c].pause < 30
        /\ tk[c].pc # "sleep" => tk[c].pause = 0

\* retries exhausted: three waits taken, none after the fourth attempt
C18_Witness ==
    \E c \in TileSet :
        /\ tk[c].pc = "log" /\ tk[c].nreq = 4
        /\ Len(tk[c].waits) = 3
        /\ tk[c].waits[1] = 500 /\ tk[c].waits[2] > 1000 /\ tk[c].waits[3] = 2249

\* C13 (as claimed): in the second of two runs against an upstream that
\* answers each coordinate the same way, no outcome is Saved, every outcome is
\* Skipped, and every tile holds the bytes the first run left.
C13_SecondRunAllSkipped ==
    run1.over =>
        \A c \in TileSet :
            /\ tk[c].pc = "done" => tk[c].result = "skipped"
            /\ dest[c] = run1.dest[c]

\* C13 (amended): in the second run every coordinate whose tile the first
\* run stored or found present (its outcome was Saved or Skipped) is Skipped
\* without a request and its bytes stay what the first run left; a coordinate
\* for which the first run stored no tile is never Skipped; and a tile is
\* published in the second run only for a coordinate on which the first run
\* ended Failed or by an exception, every other tile keeping its bytes.
C13_SecondRunSkipsStored ==
    run1.over =>
        \A c \in TileSet :
            /\ run1.result[c] \in {"saved", "skipped"} => NonEmptyFile(run1.dest[c])
            /\ NonEmptyFile(run1.dest[c]) =>
                  /\ tk[c].pc \in {"unsubmitted", "queued", "begin", "done"}
                  /\ tk[c].pc = "done" => tk[c].result = "skipped"
                  /\ tk[c].r = NoResp
                  /\ dest[c] = run1.dest[c]
            /\ ~NonEmptyFile(run1.dest[c]) =>
                  (tk[c].pc = "done" => tk[c].result # "skipped")
            /\ Published(c) => run1.result[c] \in {"failed", "raised"}
            /\ dest[c] = run1.dest[c] \/ Published(c)

\* a second run over two coordinates: the one that the first run saved (after
\* a poisoned first answer) is skipped; the other, whose rename failed in the
\* first run, is saved now
C13_Witness ==
    /\ run1.over /\ m.pc = "done" /\ m.skipped = 1 /\ m.saved = 1
    /\ \E c \in TileSet :
          /\ run1.result[c] = "saved" /\ upstream[c] = <<R_json, R_tile>>
          /\ dest[c] = File(B_TILE1 \o B_TILE2)
          /\ tk[c].result = "skipped"
    /\ \E c \in TileSet :
          /\ run1.result[c] = "failed" /\ upstream[c] = <<R_tile>>
          /\ tk[c].result = "saved"

\* C19: whenever an invocation has returned Saved, and already while it
\* pauses between os.replace and that return, the destination is a
\* non-empty file holding exactly the body of the response of the successful
\* attempt, its chunks in order and nothing else (nothing of an earlier attempt
\* or of a .part file found on disk), no .part file remains, and the tile
\* counts as present; an invocation for a coordinate that an earlier run
\* Saved is Skipped, without a request, and leaves the file as it is.
C19_SavedIsCompleteAndSkippedLater ==
    \A c \in TileSet :
        /\ Published(c) =>
              /\ tk[c].r.kind = "http" /\ tk[c].r.status = 200
              /\ dest[c].exists
              /\ Len(dest[c].data) > 0
              /\ dest[c].data = Body(tk[c].r)
              /\ SubSeq(dest[c].data, 1, Len(tk[c].r.chunks[1])) = tk[c].r.chunks[1]
              /\ ~part[c].exists
        /\ (run1.over /\ run1.result[c] = "saved") =>
              /\ tk[c].pc \in {"unsubmitted", "queued", "begin", "done"}
              /\ tk[c].r = NoResp
              /\ tk[c].pc = "done" => tk[c].result = "skipped"
              /\ dest[c] = run1.dest[c]

\* a tile that the first run saved from a body of several chunks, skipped by
\* the second run; nothing was logged in either
C19_Witness ==
    \E c \in TileSet :
        /\ run1.over /\ run1.result[c] = "saved"
        /\ run1.dest[c] = File(B_TILE1 \o B_TILE2)
        /\ tk[c].pc = "done" /\ tk[c].result = "skipped"
        /\ Len(log) = 0

\* C17 (as claimed): with every call returning and fair scheduling, every
\* invocation issues at most 1 + html_retries requests, every submitted
\* coordinate eventually receives one of the four outcomes, the summary is
\* emitted only once all N outcomes are consumed, and the run ends with it.
C17_EveryRunCompletes ==
    /\ [](\A c \in TileSet : tk[c].nreq <= 1 + HtmlRetries)
    /\ [](m.pc = "done" => (m.total = Len(Tiles) /\ m.consumed = TileSet))
    /\ \A c \in AllTiles :
          (c \in TileSet /\ tk[c].pc = "queued")
              ~> (c \in TileSet /\ tk[c].pc = "done" /\ tk[c].result \in Outcomes)
    /\ <>(m.pc = "done")

====
